---- MODULE Spec2Model ----
(***************************************************************************)
(* Polytopia-ELO-Bot: the HTTP API (src/modules/api.py) and the command    *)
(* path of the chat bot (src/bot.py).                                      *)
(*                                                                         *)
(* Strings the program inspects character by character (the scope string   *)
(* that get_scopes splits) are sequences of one-character strings.  Every  *)
(* action is one run of a coroutine between two suspension points: the     *)
(* only await of the API handlers is guild.fetch_member.                   *)
(***************************************************************************)
EXTENDS Integers, Sequences, FiniteSets, TLC

VARIABLES
    store,      \* ApiApplication table: username -> [token, scopes]
    games,      \* Game table: sequence of records, games[i].id = i
    pc,         \* per request: position of its coroutine
    request,    \* per request: the inbound HTTP request
    scopes,     \* per request: the list get_scopes returned
    loop,       \* per request: locals of new_game's resolution loop
    warnings,   \* per request: the _warnings local of new_game
    response,   \* per request: the HTTP response
    log,        \* per request: the calls issued to collaborators, in order
    apidb,      \* the API process: state of the connection of models.db
    bpc,        \* the bot: position in the handling of one message
    message,    \* the bot: the inbound message
    prefixes,   \* the bot: what get_prefix returned
    verdict,    \* the bot: how the command path ended
    exc,        \* the bot: the exception raised, if any
    dispatched, \* the bot: whether the command's handler was invoked
    botlog,     \* the bot: records written through logging
    sent,       \* the bot: messages sent to the channel with ctx.send
    botdb,      \* the bot process: state of the connection of models.db
    sending,    \* the bot: messages given to ctx.send, its await pending
    raised      \* the bot: the exception that left on_command_error

apiVars == <<store, games, pc, request, scopes, loop, warnings, response, log,
            apidb>>
botVars == <<bpc, message, prefixes, verdict, exc, dispatched, botlog, sent,
            botdb, sending, raised>>
vars == <<store, games, pc, request, scopes, loop, warnings, response, log,
          apidb,
          bpc, message, prefixes, verdict, exc, dispatched, botlog, sent,
          botdb, sending, raised>>

----------------------------------------------------------------------------
(* Bounds of the model.                                                    *)

MaxSides == 2       \* sides in one sides_discord_ids list
MaxIds == 3         \* discord ids in one sides_discord_ids list, all sides
MaxScopeLen == 4    \* characters of a drawn ApiApplication.scopes string

----------------------------------------------------------------------------
(* Text.                                                                   *)

\* the characters str.isspace() holds for, as far as a string of this
\* module can hold them: blank, tab, line feed, carriage return, form feed,
\* then U+000B, U+001C to U+001F, U+0085, U+00A0 and U+1680 written as the
\* characters themselves.  The spaces U+2000 to U+200A, U+2028, U+2029,
\* U+202F, U+205F and U+3000 are separators of split() too and cannot be
\* written in a string here.
Whitespace ==
    {" ", "\t", "\n", "\r", "\f",
     "", "", "", "", "", "", " ", " "}

UsersRead == <<"u","s","e","r","s",":","r","e","a","d">>
GamesRead == <<"g","a","m","e","s",":","r","e","a","d">>
GamesNew == <<"g","a","m","e","s",":","n","e","w">>

\* str.split() with no separator, as a left-to-right scan: runs of
\* whitespace separate, leading and trailing whitespace give no token.
RECURSIVE SplitFrom(_, _, _, _)
SplitFrom(s, i, cur, out) ==
    IF i > Len(s)
    THEN IF cur = <<>> THEN out ELSE Append(out, cur)
    ELSE IF s[i] \in Whitespace
         THEN SplitFrom(s, i + 1, <<>>,
                        IF cur = <<>> THEN out ELSE Append(out, cur))
         ELSE SplitFrom(s, i + 1, Append(cur, s[i]), out)

\* a plausible slip: split(' '), which cuts at every single blank only
RECURSIVE SplitBlankFrom(_, _, _, _)
SplitBlankFrom(s, i, cur, out) ==
    IF i > Len(s)
    THEN Append(out, cur)
    ELSE IF s[i] = " "
         THEN SplitBlankFrom(s, i + 1, <<>>, Append(out, cur))
         ELSE SplitBlankFrom(s, i + 1, Append(cur, s[i]), out)

SplitOnBlank(s) == SplitBlankFrom(s, 1, <<>>, <<>>)

Split(s) == SplitFrom(s, 1, <<>>, <<>>)

Contains(list, x) == \E i \in 1..Len(list) : list[i] = x

----------------------------------------------------------------------------
(* The collaborators of the API.                                           *)

Requests == {"r1", "r2"}

\* the Discord client: guilds it knows, their member caches, and the
\* members Discord itself has
ClientGuilds == {10}
GuildIds == {10, 99}
MemberIds == {1, 2, 3}
CachedMembers(guild_id) == IF guild_id = 10 THEN {1} ELSE {}
RemoteMembers(guild_id) == IF guild_id = 10 THEN {1, 2} ELSE {}

\* what guild.fetch_member can do: return the member, raise
\* discord.NotFound, or raise another discord.HTTPException (server error,
\* rate limit, Forbidden); NotFound is a subclass of HTTPException
FetchOutcomes(guild_id, user_id) ==
    (IF user_id \in RemoteMembers(guild_id) THEN {"Member"} ELSE {"NotFound"})
        \cup {"HTTPException"}

DiscordHTTPExceptions == {"NotFound", "HTTPException"}

\* rows of the DiscordMember table
DbUsers == {1, 2}

DefaultStore ==
    [u \in {"app1", "app2", "app3"} |->
        CASE u = "app1" -> [token |-> "secret1",
                            scopes |-> GamesRead \o <<" ">> \o GamesNew]
          [] u = "app2" -> [token |-> "secret2", scopes |-> GamesRead]
          [] u = "app3" -> [token |-> "secret3",
                            scopes |-> <<" ">> \o UsersRead \o <<"\t", " ">>
                                        \o UsersRead \o <<"\n">>]]

Credentials ==
    { [username |-> "app1", password |-> "secret1"],
      [username |-> "app2", password |-> "secret2"],
      [username |-> "app3", password |-> "secret3"],
      [username |-> "app1", password |-> "secret2"],
      [username |-> "app9", password |-> "secret1"] }

InitialGames ==
    << [id |-> 1, guild_id |-> 10, name |-> "old", is_ranked |-> TRUE,
        is_mobile |-> TRUE, sides |-> <<<<1>>, <<2>>>>, notes |-> ""] >>

\* ApiApplication.authenticate: the application whose id and token match,
\* as a sequence of zero (None) or one application
authenticate(st, username, password) ==
    IF username \in DOMAIN st /\ st[username].token = password
    THEN << st[username] >>
    ELSE << >>

----------------------------------------------------------------------------
(* Responses.                                                              *)

NoBody == [none |-> TRUE]

Detail(msg, id) == [msg |-> msg, id |-> id]

\* fastapi.HTTPException(status_code, detail, headers)
HTTPException(status, detail, headers) ==
    [status |-> status, detail |-> detail, headers |-> headers,
     body |-> NoBody]

Ok(body) ==
    [status |-> 200, detail |-> Detail("", 0), headers |-> {}, body |-> body]

\* an exception no handler catches: the server answers 500
ServerError(e) ==
    [status |-> 500, detail |-> Detail("Internal Server Error", 0),
     headers |-> {}, body |-> NoBody, exc |-> e]

NoResponse == [status |-> 0, detail |-> Detail("", 0), headers |-> {},
               body |-> NoBody]

----------------------------------------------------------------------------
(* Inputs.                                                                 *)

SeqsUpTo(S, n) == UNION { [1..k -> S] : k \in 0..n }

RECURSIVE Sum(_)
Sum(lens) == IF lens = <<>> THEN 0 ELSE Head(lens) + Sum(Tail(lens))

\* the sequence flat cut into consecutive sides of the lengths lens
RECURSIVE Cut(_, _)
Cut(flat, lens) ==
    IF lens = <<>>
    THEN <<>>
    ELSE << SubSeq(flat, 1, Head(lens)) >>
            \o Cut(SubSeq(flat, Head(lens) + 1, Len(flat)), Tail(lens))

\* every list of at most MaxSides sides holding at most MaxIds ids in all
SideLists ==
    UNION { { Cut(flat, lens) :
                lens \in { l \in SeqsUpTo(0..Len(flat), MaxSides) :
                             Sum(l) = Len(flat) } } :
            flat \in SeqsUpTo(MemberIds, MaxIds) }

\* class NewGame(pydantic.BaseModel)
NewGameBodies ==
    { [game_name |-> "g", guild_id |-> g, is_ranked |-> FALSE,
       is_mobile |-> TRUE, notes |-> n, sides_discord_ids |-> sl] :
        g \in GuildIds, n \in {"", "gg"}, sl \in SideLists }

NoGame == [game_name |-> "", guild_id |-> 0, is_ranked |-> FALSE,
           is_mobile |-> TRUE, notes |-> "", sides_discord_ids |-> <<>>]

NoRequest == [op |-> "none", username |-> "", password |-> "", id |-> 0,
              game |-> NoGame]

NoLoop == [i |-> 0, j |-> 0, discord_user_sides |-> <<>>,
           discord_user_side |-> <<>>]

\* a call issued to a collaborator; Result is the log entry of what an
\* awaited or fallible call came back with
Call(name, id) == [call |-> name, id |-> id, result |-> "issued"]
Result(name, id, result) == [call |-> name, id |-> id, result |-> result]

\* the calls that run a query on models.db
Queries ==
    {"authenticate", "DiscordMember.get_or_none", "Game.get_or_none",
     "Game.create_game", "save"}

\* models.db after the calls: a query connects a database that is closed,
\* and no call of the API closes it
connect(db, calls) ==
    IF \E k \in 1..Len(calls) : calls[k].call \in Queries
    THEN "open"
    ELSE db

----------------------------------------------------------------------------
(* get_scopes                                                              *)

get_scopes(st, username, password) ==
    LET app == authenticate(st, username, password)
    IN  IF Len(app) > 0
        THEN [kind |-> "return", scopes |-> Split(app[1].scopes),
              response |-> NoResponse,
              calls |-> << Call("authenticate", 0) >>]
        ELSE [kind |-> "raise", scopes |-> <<>>,
              response |-> HTTPException(401,
                               Detail("Incorrect app ID or token.", 0),
                               {"WWW-Authenticate"}),
              calls |-> << Call("authenticate", 0) >>]

----------------------------------------------------------------------------
(* get_user, get_game                                                      *)

\* DiscordMember.as_json(include_games)
UserJson(discord_id, include_games) ==
    IF include_games
    THEN [discord_id |-> discord_id, games |-> <<>>]
    ELSE [discord_id |-> discord_id]

\* Game.as_json()
GameJson(g) == [id |-> g.id, name |-> g.name, sides |-> g.sides,
                notes |-> g.notes]

get_user(discord_id, sc) ==
    IF ~Contains(sc, UsersRead)
    THEN [response |-> HTTPException(403,
                           Detail("Not authorised for scope users:read.", 0),
                           {}),
          calls |-> << >>]
    ELSE IF discord_id \in DbUsers
    THEN [response |-> Ok(UserJson(discord_id, Contains(sc, GamesRead))),
          calls |-> << Call("DiscordMember.get_or_none", discord_id) >>]
    ELSE [response |-> HTTPException(404, Detail("User not found.", 0), {}),
          calls |-> << Call("DiscordMember.get_or_none", discord_id) >>]

get_game(db, game_id, sc) ==
    IF ~Contains(sc, GamesRead)
    THEN [response |-> HTTPException(403,
                           Detail("Not authorised for scope games:read.", 0),
                           {}),
          calls |-> << >>]
    ELSE IF game_id \in 1..Len(db)
    THEN [response |-> Ok(GameJson(db[game_id])),
          calls |-> << Call("Game.get_or_none", game_id) >>]
    ELSE [response |-> HTTPException(404, Detail("Game not found.", 0), {}),
          calls |-> << Call("Game.get_or_none", game_id) >>]

----------------------------------------------------------------------------
(* get_discord_member                                                      *)

NoMember == 0

\* a plausible slip: the check of the guild missing
get_discord_member_no_guild_check(guild_id, user_id) ==
    IF user_id \in CachedMembers(guild_id)
    THEN [kind |-> "return", member |-> user_id, response |-> NoResponse,
          calls |-> << Call("get_guild", guild_id),
                       Call("get_member", user_id) >>]
    ELSE [kind |-> "await", member |-> NoMember, response |-> NoResponse,
          calls |-> << Call("get_guild", guild_id),
                       Call("get_member", user_id),
                       Call("fetch_member", user_id) >>]

\* a plausible slip: a member found in the cache fetched all the same
get_discord_member_revalidate(guild_id, user_id) ==
    IF guild_id \notin ClientGuilds
    THEN [kind |-> "raise", member |-> NoMember,
          response |-> HTTPException(404,
                           Detail("Discord guild not found by ID", guild_id),
                           {}),
          calls |-> << Call("get_guild", guild_id) >>]
    ELSE [kind |-> "await", member |-> NoMember, response |-> NoResponse,
          calls |-> << Call("get_guild", guild_id),
                       Call("get_member", user_id),
                       Call("fetch_member", user_id) >>]

\* get_discord_member up to its await: the guild lookup, the cache lookup
\* and, on a miss, the remote fetch it issues
get_discord_member(guild_id, user_id) ==
    IF guild_id \notin ClientGuilds
    THEN [kind |-> "raise", member |-> NoMember,
          response |-> HTTPException(404,
                           Detail("Discord guild not found by ID", guild_id),
                           {}),
          calls |-> << Call("get_guild", guild_id) >>]
    ELSE IF user_id \in CachedMembers(guild_id)
    THEN [kind |-> "return", member |-> user_id, response |-> NoResponse,
          calls |-> << Call("get_guild", guild_id),
                       Call("get_member", user_id) >>]
    ELSE [kind |-> "await", member |-> NoMember, response |-> NoResponse,
          calls |-> << Call("get_guild", guild_id),
                       Call("get_member", user_id),
                       Call("fetch_member", user_id) >>]

\* a plausible slip: the exception of fetch_member swallowed, the loop
\* going on with no member
fetch_member_done_lenient(user_id, outcome) ==
    [kind |-> "return",
     member |-> IF outcome \in DiscordHTTPExceptions THEN NoMember
                ELSE user_id,
     response |-> NoResponse,
     calls |-> << Result("fetch_member", user_id, outcome) >>]

\* get_discord_member from the await on: except discord.HTTPException
fetch_member_done(user_id, outcome) ==
    IF outcome \in DiscordHTTPExceptions
    THEN [kind |-> "raise", member |-> NoMember,
          response |-> HTTPException(404,
                           Detail("Discord member not found by ID", user_id),
                           {}),
          calls |-> << Result("fetch_member", user_id, outcome) >>]
    ELSE [kind |-> "return", member |-> user_id, response |-> NoResponse,
          calls |-> << Result("fetch_member", user_id, outcome) >>]

----------------------------------------------------------------------------
(* new_game                                                                *)

\* a plausible slip: the exception of get_discord_member caught inside the
\* loop, which goes on with the next id
RECURSIVE ResolveLoopCarryOn(_, _, _, _, _, _)
ResolveLoopCarryOn(game, i, j, sides, side, calls) ==
    IF i > Len(game.sides_discord_ids)
    THEN [kind |-> "resolved", i |-> i, j |-> j,
          discord_user_sides |-> sides, discord_user_side |-> side,
          response |-> NoResponse, calls |-> calls]
    ELSE IF j > Len(game.sides_discord_ids[i])
    THEN ResolveLoopCarryOn(game, i + 1, 1, Append(sides, side), <<>>, calls)
    ELSE LET m == get_discord_member(game.guild_id,
                                     game.sides_discord_ids[i][j])
         IN  IF m.kind = "return"
             THEN ResolveLoopCarryOn(game, i, j + 1, sides,
                                     Append(side, m.member), calls \o m.calls)
             ELSE IF m.kind = "raise"
             THEN ResolveLoopCarryOn(game, i, j + 1, sides, side,
                                     calls \o m.calls)
             ELSE [kind |-> m.kind, i |-> i, j |-> j,
                   discord_user_sides |-> sides, discord_user_side |-> side,
                   response |-> m.response, calls |-> calls \o m.calls]

\* the two nested for loops of new_game from position (i, j) on, run until
\* get_discord_member raises, awaits, or the last side is appended
RECURSIVE ResolveLoop(_, _, _, _, _, _)
ResolveLoop(game, i, j, sides, side, calls) ==
    IF i > Len(game.sides_discord_ids)
    THEN [kind |-> "resolved", i |-> i, j |-> j,
          discord_user_sides |-> sides, discord_user_side |-> side,
          response |-> NoResponse, calls |-> calls]
    ELSE IF j > Len(game.sides_discord_ids[i])
    THEN ResolveLoop(game, i + 1, 1, Append(sides, side), <<>>, calls)
    ELSE LET m == get_discord_member(game.guild_id,
                                     game.sides_discord_ids[i][j])
         IN  IF m.kind = "return"
             THEN ResolveLoop(game, i, j + 1, sides, Append(side, m.member),
                              calls \o m.calls)
             ELSE [kind |-> m.kind, i |-> i, j |-> j,
                   discord_user_sides |-> sides, discord_user_side |-> side,
                   response |-> m.response, calls |-> calls \o m.calls]

\* a plausible slip: the scope check of new_game missing
new_game_unchecked(game, sc) == ResolveLoop(game, 1, 1, <<>>, <<>>, <<>>)

\* new_game from its entry to the first suspension of the loop
new_game(game, sc) ==
    IF ~Contains(sc, GamesNew)
    THEN [kind |-> "raise", i |-> 0, j |-> 0,
          discord_user_sides |-> <<>>, discord_user_side |-> <<>>,
          response |-> HTTPException(403,
                           Detail("Not authorised for scope games:new.", 0),
                           {}),
          calls |-> << >>]
    ELSE ResolveLoop(game, 1, 1, <<>>, <<>>, <<>>)

\* new_game resumed by the result of guild.fetch_member
new_game_resume(game, lp, outcome) ==
    LET m == fetch_member_done(game.sides_discord_ids[lp.i][lp.j], outcome)
    IN  IF m.kind = "return"
        THEN ResolveLoop(game, lp.i, lp.j + 1, lp.discord_user_sides,
                         Append(lp.discord_user_side, m.member), m.calls)
        ELSE [kind |-> "raise", i |-> lp.i, j |-> lp.j,
              discord_user_sides |-> lp.discord_user_sides,
              discord_user_side |-> lp.discord_user_side,
              response |-> m.response, calls |-> m.calls]

\* a plausible slip: the cancellation caught around the await, the loop
\* going on as if the member had been fetched
new_game_cancel_swallowed(game, lp) == new_game_resume(game, lp, "Member")

\* asyncio.CancelledError thrown into new_game at its await: it is no
\* discord.HTTPException, so it passes the except clause of
\* get_discord_member and leaves new_game before create_game
new_game_cancel(game, lp) ==
    [kind |-> "cancelled", i |-> lp.i, j |-> lp.j,
     discord_user_sides |-> lp.discord_user_sides,
     discord_user_side |-> lp.discord_user_side,
     response |-> NoResponse,
     calls |-> << Result("fetch_member",
                         game.sides_discord_ids[lp.i][lp.j],
                         "CancelledError") >>]

----------------------------------------------------------------------------
(* Game.create_game and Model.save                                         *)

WarningLists ==
    { <<>>, <<"side imbalance">>,
      <<"side imbalance", "duplicate historical matchup">> }

RECURSIVE Flatten(_)
Flatten(groups) ==
    IF groups = <<>> THEN <<>> ELSE Head(groups) \o Flatten(Tail(groups))

NonEmptySides(groups) == { k \in 1..Len(groups) : groups[k] # <<>> }

DuplicateAcrossSides(groups) ==
    \E a, b \in 1..Len(groups) :
        a # b /\ \E x \in 1..Len(groups[a]), y \in 1..Len(groups[b]) :
                    groups[a][x] = groups[b][y]

\* the preconditions of a GameRequest
ValidRequest(groups, name) ==
    /\ Cardinality(NonEmptySides(groups)) >= 2
    /\ \A k \in 1..Len(groups) : groups[k] # <<>>
    /\ ~DuplicateAcrossSides(groups)
    /\ name # ""

\* what Game.create_game can do with these arguments: raise ValueError,
\* fail in the database, or create the record and return it with warnings
CreateOutcomes(groups, name) ==
    IF ~ValidRequest(groups, name)
    THEN { [kind |-> "ValueError", warnings |-> <<>>] }
    ELSE { [kind |-> "created", warnings |-> w] : w \in WarningLists }
            \cup { [kind |-> "DatabaseError", warnings |-> <<>>] }

\* what db_game.save() can do
SaveOutcomes == {"saved", "DatabaseError"}

NewRecord(db, game, groups) ==
    [id |-> Len(db) + 1, guild_id |-> game.guild_id, name |-> game.game_name,
     is_ranked |-> game.is_ranked, is_mobile |-> game.is_mobile,
     sides |-> groups, notes |-> ""]

\* a plausible slip: create_game called a second time when the first call
\* has returned
create_and_respond_twice(db, game, groups, created, saved) ==
    IF created.kind # "created"
    THEN [games |-> db, warnings |-> <<>>,
          response |-> HTTPException(400, Detail("ValueError", 0), {}),
          calls |-> << Result("Game.create_game", 0, created.kind) >>]
    ELSE LET first == NewRecord(db, game, groups)
             db_game == NewRecord(Append(db, first), game, groups)
         IN  [games |-> Append(Append(db, first), db_game),
              warnings |-> created.warnings,
              response |-> Ok([game_id |-> db_game.id]),
              calls |-> << Result("Game.create_game", first.id, created.kind),
                           Result("Game.create_game", db_game.id,
                                  created.kind) >>]

\* a plausible slip: the note saved on the first row of the table, not on
\* the record create_game returned
create_and_respond_first_row(db, game, groups, created, saved) ==
    IF created.kind # "created"
    THEN [games |-> db, warnings |-> <<>>,
          response |-> HTTPException(400, Detail("ValueError", 0), {}),
          calls |-> << Result("Game.create_game", 0, created.kind) >>]
    ELSE LET db_game == NewRecord(db, game, groups)
         IN  IF game.notes = ""
             THEN [games |-> Append(db, db_game),
                   warnings |-> created.warnings,
                   response |-> Ok([game_id |-> db_game.id]),
                   calls |-> << Result("Game.create_game", db_game.id,
                                       created.kind) >>]
             ELSE [games |-> Append([db EXCEPT ![1].notes = game.notes],
                                    db_game),
                   warnings |-> created.warnings,
                   response |-> Ok([game_id |-> db_game.id]),
                   calls |-> << Result("Game.create_game", db_game.id,
                                       created.kind),
                                Result("save", 1, saved) >>]

\* new_game after the loop: create_game, the note, the response
create_and_respond(db, game, groups, created, saved) ==
    IF created.kind = "ValueError"
    THEN [games |-> db, warnings |-> <<>>,
          response |-> HTTPException(400, Detail("ValueError", 0), {}),
          calls |-> << Result("Game.create_game", 0, created.kind) >>]
    ELSE IF created.kind # "created"
    THEN [games |-> db, warnings |-> <<>>,
          response |-> ServerError(created.kind),
          calls |-> << Result("Game.create_game", 0, created.kind) >>]
    ELSE LET db_game == NewRecord(db, game, groups)
         IN  IF game.notes = ""
             THEN [games |-> Append(db, db_game),
                   warnings |-> created.warnings,
                   response |-> Ok([game_id |-> db_game.id]),
                   calls |-> << Result("Game.create_game", db_game.id,
                                       created.kind) >>]
             ELSE IF saved = "saved"
             THEN [games |-> Append(db, [db_game EXCEPT !.notes = game.notes]),
                   warnings |-> created.warnings,
                   response |-> Ok([game_id |-> db_game.id]),
                   calls |-> << Result("Game.create_game", db_game.id,
                                       created.kind),
                                Result("save", db_game.id, saved) >>]
             ELSE [games |-> Append(db, db_game),
                   warnings |-> created.warnings,
                   response |-> ServerError(saved),
                   calls |-> << Result("Game.create_game", db_game.id,
                                       created.kind),
                                Result("save", db_game.id, saved) >>]

----------------------------------------------------------------------------
(* The API as a state machine.                                             *)

ApiInit ==
    /\ games = InitialGames
    /\ pc = [r \in Requests |-> "idle"]
    /\ request = [r \in Requests |-> NoRequest]
    /\ scopes = [r \in Requests |-> <<>>]
    /\ loop = [r \in Requests |-> NoLoop]
    /\ warnings = [r \in Requests |-> <<>>]
    /\ response = [r \in Requests |-> NoResponse]
    /\ log = [r \in Requests |-> <<>>]
    /\ apidb = "closed"

Arrive(r, req) ==
    /\ pc[r] = "idle"
    /\ request' = [request EXCEPT ![r] = req]
    /\ pc' = [pc EXCEPT ![r] = "get_scopes"]
    /\ UNCHANGED <<store, games, scopes, loop, warnings, response, log,
                   apidb>>
    /\ UNCHANGED botVars

\* GET /users/{discord_id} arrives
RequestUser(r) ==
    /\ pc[r] = "idle"
    /\ \E c \in Credentials, id \in MemberIds :
           Arrive(r, [op |-> "get_user", username |-> c.username,
                      password |-> c.password, id |-> id, game |-> NoGame])

\* GET /games/{game_id} arrives
RequestGame(r) ==
    /\ pc[r] = "idle"
    /\ \E c \in Credentials, id \in {1, 2} :
           Arrive(r, [op |-> "get_game", username |-> c.username,
                      password |-> c.password, id |-> id, game |-> NoGame])

\* POST /game/new arrives
RequestNewGame(r) ==
    /\ pc[r] = "idle"
    /\ \E c \in Credentials, g \in NewGameBodies :
           Arrive(r, [op |-> "new_game", username |-> c.username,
                      password |-> c.password, id |-> 0, game |-> g])

\* the dependency Depends(get_scopes) of every operation
GetScopes(r) ==
    /\ pc[r] = "get_scopes"
    /\ LET res == get_scopes(store, request[r].username, request[r].password)
       IN  /\ log' = [log EXCEPT ![r] = @ \o res.calls]
           /\ apidb' = connect(apidb, res.calls)
           /\ IF res.kind = "return"
              THEN /\ scopes' = [scopes EXCEPT ![r] = res.scopes]
                   /\ pc' = [pc EXCEPT ![r] = "handler"]
                   /\ UNCHANGED response
              ELSE /\ response' = [response EXCEPT ![r] = res.response]
                   /\ pc' = [pc EXCEPT ![r] = "done"]
                   /\ UNCHANGED scopes
    /\ UNCHANGED <<store, games, request, loop, warnings>>
    /\ UNCHANGED botVars

GetUser(r) ==
    /\ pc[r] = "handler"
    /\ request[r].op = "get_user"
    /\ LET res == get_user(request[r].id, scopes[r])
       IN  /\ log' = [log EXCEPT ![r] = @ \o res.calls]
           /\ apidb' = connect(apidb, res.calls)
           /\ response' = [response EXCEPT ![r] = res.response]
    /\ pc' = [pc EXCEPT ![r] = "done"]
    /\ UNCHANGED <<store, games, request, scopes, loop, warnings>>
    /\ UNCHANGED botVars

GetGame(r) ==
    /\ pc[r] = "handler"
    /\ request[r].op = "get_game"
    /\ LET res == get_game(games, request[r].id, scopes[r])
       IN  /\ log' = [log EXCEPT ![r] = @ \o res.calls]
           /\ apidb' = connect(apidb, res.calls)
           /\ response' = [response EXCEPT ![r] = res.response]
    /\ pc' = [pc EXCEPT ![r] = "done"]
    /\ UNCHANGED <<store, games, request, scopes, loop, warnings>>
    /\ UNCHANGED botVars

\* new_game runs on from the state lr its loop has reached: it raises,
\* suspends in fetch_member, or goes on to create_game and the response
Advance(r, lr) ==
    /\ loop' = [loop EXCEPT ![r] =
                  [i |-> lr.i, j |-> lr.j,
                   discord_user_sides |-> lr.discord_user_sides,
                   discord_user_side |-> lr.discord_user_side]]
    /\ CASE lr.kind = "raise" ->
              /\ response' = [response EXCEPT ![r] = lr.response]
              /\ log' = [log EXCEPT ![r] = @ \o lr.calls]
              /\ apidb' = connect(apidb, lr.calls)
              /\ pc' = [pc EXCEPT ![r] = "done"]
              /\ UNCHANGED <<games, warnings>>
         [] lr.kind = "await" ->
              /\ log' = [log EXCEPT ![r] = @ \o lr.calls]
              /\ apidb' = connect(apidb, lr.calls)
              /\ pc' = [pc EXCEPT ![r] = "fetch_member"]
              /\ UNCHANGED <<games, warnings, response>>
         [] lr.kind = "cancelled" ->
              /\ log' = [log EXCEPT ![r] = @ \o lr.calls]
              /\ apidb' = connect(apidb, lr.calls)
              /\ pc' = [pc EXCEPT ![r] = "cancelled"]
              /\ UNCHANGED <<games, warnings, response>>
         [] lr.kind = "resolved" ->
              \E created \in CreateOutcomes(lr.discord_user_sides,
                                            request[r].game.game_name),
                 saved \in SaveOutcomes :
                  LET res == create_and_respond(games, request[r].game,
                                 lr.discord_user_sides, created, saved)
                  IN  /\ games' = res.games
                      /\ warnings' = [warnings EXCEPT ![r] = res.warnings]
                      /\ response' = [response EXCEPT ![r] = res.response]
                      /\ log' = [log EXCEPT ![r] = @ \o lr.calls \o res.calls]
                      /\ apidb' = connect(apidb, lr.calls \o res.calls)
                      /\ pc' = [pc EXCEPT ![r] = "done"]
    /\ UNCHANGED <<store, request, scopes>>
    /\ UNCHANGED botVars

NewGame(r) ==
    /\ pc[r] = "handler"
    /\ request[r].op = "new_game"
    /\ Advance(r, new_game(request[r].game, scopes[r]))

\* guild.fetch_member completes and new_game runs on
FetchMemberReturn(r) ==
    /\ pc[r] = "fetch_member"
    /\ \E outcome \in FetchOutcomes(request[r].game.guild_id,
              request[r].game.sides_discord_ids[loop[r].i][loop[r].j]) :
          Advance(r, new_game_resume(request[r].game, loop[r], outcome))

\* the transport cancels the request while new_game is suspended in
\* guild.fetch_member
Cancel(r) ==
    /\ pc[r] = "fetch_member"
    /\ LET lr == new_game_cancel(request[r].game, loop[r])
       IN  Advance(r, [lr EXCEPT !.calls = << Call("Task.cancel", 0) >> \o @])

\* the fetch that was in flight when the request was cancelled completes
\* at Discord; the coroutine that awaited it is gone
FetchMemberLate(r) ==
    /\ pc[r] = "cancelled"
    /\ \E outcome \in FetchOutcomes(request[r].game.guild_id,
              request[r].game.sides_discord_ids[loop[r].i][loop[r].j]) :
          log' = [log EXCEPT ![r] =
                    Append(@, Result("fetch_member.late",
                        request[r].game.sides_discord_ids[loop[r].i][loop[r].j],
                        outcome))]
    /\ pc' = [pc EXCEPT ![r] = "gone"]
    /\ UNCHANGED <<store, games, request, scopes, loop, warnings, response,
                   apidb>>
    /\ UNCHANGED botVars

----------------------------------------------------------------------------
(* The bot: settings, guilds, roles.                                       *)

NoGuild == 0            \* message.guild is None: a direct message
MainGuild == 100        \* settings.server_ids['main']
OtherGuild == 200       \* a configured guild that is not the main one
StrayGuild == 300       \* a guild settings.config does not hold
MessageGuilds == {NoGuild, MainGuild, OtherGuild, StrayGuild}

\* settings.config: guild id -> settings of the guild
Config ==
    [g \in {MainGuild, OtherGuild} |->
        [command_prefix |-> IF g = MainGuild THEN "$" ELSE "!"]]

\* settings.guild_setting(guild_id, 'command_prefix')
guild_setting(guild_id) == Config[guild_id].command_prefix

\* settings.get_setting('command_prefix'): the process-wide default
get_setting == "?"

\* commands.when_mentioned_or(prefix)(bot, message)
when_mentioned_or(prefix) == << "<@bot> ", "<@!bot> ", prefix >>

\* positions of roles in a guild; the role named Rider sits at RiderRank
RoleRanks == {0, 1, 2}
RiderRank == 1

\* the commands the extensions register: name -> has a local on_error
Commands == [c \in {"game", "lb"} |-> [on_error |-> c = "lb"]]
TypedCommands == {"game", "lb", "nope"}
TypedPrefixes == {"$", "!", "?", "<@bot> "}

\* an exception: its class and the text str() gives for it
Exception(class, text) == [class |-> class, text |-> text]

NoException == Exception("none", "")

\* message.guild.id and ctx.guild.id with the guild None
AttributeError ==
    Exception("AttributeError", "'NoneType' object has no attribute 'id'")

\* Role.__lt__ gives NotImplemented for None
TypeError ==
    Exception("TypeError",
              "'<' not supported between instances of 'Role' and 'NoneType'")

\* raised by the framework: no such command, a global check returned False,
\* the arguments typed do not parse
CommandNotFound(name) ==
    Exception("CommandNotFound", "Command \"" \o name \o "\" is not found")

CheckFailure ==
    Exception("CheckFailure",
              "The global check functions for command failed.")

UserInputError ==
    Exception("UserInputError",
              "name is a required argument that is missing.")

\* traceback.format_exception called with the keyword etype
FormatExceptionTypeError ==
    Exception("TypeError",
              "format_exception() got an unexpected keyword argument 'etype'")

\* what traceback.format_exception(etype=type(exc), value=exc,
\* tb=exc.__traceback__) does: up to Python 3.9 the keyword etype is taken
\* and the lines are returned, from Python 3.10 on it is a TypeError
FormatExceptionOutcomes == {"formatted", "TypeError"}

\* ctx.send refused by Discord
Forbidden ==
    Exception("Forbidden",
              "403 Forbidden (error code: 50013): Missing Permissions")

\* what the await of ctx.send can do: return when the message is sent, or
\* raise a discord.HTTPException such as Forbidden
SendOutcomes == {"sent", "Forbidden"}

RiderDenial == "You must attain \"Rider\" role to use this bot"

\* what the handlers of the extensions let escape, as str() gives it
HandlerErrors ==
    { "OperationalError: database is locked",
      "KeyError: 'elo_max'" }

\* the framework wraps what a handler raises
CommandInvokeError(original) ==
    Exception("CommandInvokeError",
              "Command raised an exception: " \o original)

NoMessage == [guild |-> NoGuild, top_role |-> 0, has_rider |-> FALSE,
              prefix |-> "", command |-> ""]

----------------------------------------------------------------------------
(* get_prefix and the global checks                                        *)

\* a plausible slip: the default prefix for every guild
get_prefix_default_only(msg) ==
    [kind |-> "return", prefixes |-> when_mentioned_or(get_setting),
     logged |-> << >>, exc |-> NoException]

\* in the else branch the f-string reads message.guild.id before anything
\* is logged: with message.guild None that is an AttributeError
get_prefix(msg) ==
    IF msg.guild # NoGuild /\ msg.guild \in DOMAIN Config
    THEN [kind |-> "return",
          prefixes |-> when_mentioned_or(guild_setting(msg.guild)),
          logged |-> << >>, exc |-> NoException]
    ELSE IF msg.guild = NoGuild
    THEN [kind |-> "raise", prefixes |-> << >>, logged |-> << >>,
          exc |-> AttributeError]
    ELSE [kind |-> "return", prefixes |-> when_mentioned_or(get_setting),
          logged |-> << [level |-> "error",
                         text |-> "Message received not from allowed guild",
                         id |-> msg.guild] >>,
          exc |-> NoException]

globally_block_dms(msg) == msg.guild # NoGuild

\* is_user up to its await: True, the exception of ctx.guild.id on None or
\* of comparing a Role with None, or the denial given to ctx.send
is_user(msg) ==
    IF msg.guild = NoGuild
    THEN [kind |-> "raise", value |-> FALSE, sending |-> << >>,
          exc |-> AttributeError]
    ELSE IF msg.guild = MainGuild
    THEN IF ~msg.has_rider
         THEN [kind |-> "raise", value |-> FALSE, sending |-> << >>,
               exc |-> TypeError]
         ELSE IF msg.top_role < RiderRank
         THEN [kind |-> "await", value |-> FALSE,
               sending |-> << RiderDenial >>, exc |-> NoException]
         ELSE [kind |-> "return", value |-> TRUE, sending |-> << >>,
               exc |-> NoException]
    ELSE [kind |-> "return", value |-> TRUE, sending |-> << >>,
          exc |-> NoException]

\* is_user from its await on: return False, or the exception of ctx.send
is_user_resume(outcome) ==
    IF outcome = "sent"
    THEN [kind |-> "return", value |-> FALSE, exc |-> NoException]
    ELSE [kind |-> "raise", value |-> FALSE, exc |-> Forbidden]

----------------------------------------------------------------------------
(* on_command_error                                                        *)

Ignored == {"CommandNotFound", "UserInputError", "CheckFailure"}

\* models.db.close()
post_invoke_cleanup(db) == "closed"

\* on_command_error up to its await; formatted is what
\* traceback.format_exception does with the keyword etype
on_command_error(msg, e, formatted) ==
    IF msg.command \in DOMAIN Commands /\ Commands[msg.command].on_error
    THEN [kind |-> "return", logged |-> << >>, sending |-> << >>,
          raised |-> NoException]
    ELSE IF e.class \in Ignored
    THEN [kind |-> "return",
          logged |-> << [level |-> "warning",
                         text |-> "Exception on ignored list raised",
                         id |-> 0] >>,
          sending |-> << >>, raised |-> NoException]
    ELSE IF formatted = "TypeError"
    THEN [kind |-> "raise", logged |-> << >>, sending |-> << >>,
          raised |-> FormatExceptionTypeError]
    ELSE [kind |-> "await",
          logged |-> << [level |-> "critical",
                         text |-> "Ignoring exception in command",
                         id |-> 0] >>,
          sending |-> << "Unhandled error: " \o e.text >>,
          raised |-> NoException]

\* on_command_error from its await on: return, or the exception of ctx.send
on_command_error_resume(outcome) ==
    IF outcome = "sent" THEN NoException ELSE Forbidden

----------------------------------------------------------------------------
(* The bot as a state machine: one message through Bot.process_commands.   *)

BotInit ==
    /\ bpc = "idle"
    /\ message = NoMessage
    /\ prefixes = << >>
    /\ verdict = "none"
    /\ exc = NoException
    /\ dispatched = FALSE
    /\ botlog = << >>
    /\ sent = << >>
    /\ botdb = "closed"
    /\ sending = << >>
    /\ raised = NoException

MessageArrives ==
    /\ bpc = "idle"
    /\ \E g \in MessageGuilds, t \in RoleRanks, h \in BOOLEAN,
          p \in TypedPrefixes, c \in TypedCommands :
          message' = [guild |-> g, top_role |-> t, has_rider |-> h,
                      prefix |-> p, command |-> c]
    /\ bpc' = "get_prefix"
    /\ UNCHANGED <<prefixes, verdict, exc, dispatched, botlog, sent, botdb,
                   sending, raised>>
    /\ UNCHANGED apiVars

\* Bot.get_context: the prefix callable, then the match of the message
\* against the prefixes and the lookup of the command
GetPrefix ==
    /\ bpc = "get_prefix"
    /\ LET res == get_prefix(message)
       IN  /\ botlog' = botlog \o res.logged
           /\ prefixes' = res.prefixes
           /\ IF res.kind = "raise"
              THEN /\ exc' = res.exc
                   /\ verdict' = "raised"
                   /\ bpc' = "done"
              ELSE IF ~Contains(res.prefixes, message.prefix)
              THEN /\ verdict' = "not-a-command"
                   /\ bpc' = "done"
                   /\ UNCHANGED exc
              ELSE IF message.command \notin DOMAIN Commands
              THEN /\ exc' = CommandNotFound(message.command)
                   /\ verdict' = "not-found"
                   /\ bpc' = "on_command_error"
              ELSE /\ bpc' = "globally_block_dms"
                   /\ UNCHANGED <<exc, verdict>>
    /\ UNCHANGED <<message, dispatched, sent, botdb, sending, raised>>
    /\ UNCHANGED apiVars

\* the first registered global check
GloballyBlockDms ==
    /\ bpc = "globally_block_dms"
    /\ IF globally_block_dms(message)
       THEN /\ bpc' = "is_user"
            /\ UNCHANGED <<exc, verdict>>
       ELSE /\ exc' = CheckFailure
            /\ verdict' = "denied-no-guild"
            /\ bpc' = "on_command_error"
    /\ UNCHANGED <<message, prefixes, dispatched, botlog, sent, botdb,
                   sending, raised>>
    /\ UNCHANGED apiVars

\* the second registered global check, up to its return or to its await
IsUser ==
    /\ bpc = "is_user"
    /\ LET res == is_user(message)
       IN  /\ sending' = res.sending
           /\ IF res.kind = "raise"
              THEN /\ exc' = res.exc
                   /\ verdict' = "raised"
                   /\ bpc' = "done"
              ELSE IF res.kind = "await"
              THEN /\ bpc' = "is_user_send"
                   /\ UNCHANGED <<exc, verdict>>
              ELSE /\ verdict' = "allowed"
                   /\ bpc' = "invoke"
                   /\ UNCHANGED exc
    /\ UNCHANGED <<message, prefixes, dispatched, botlog, sent, botdb, raised>>
    /\ UNCHANGED apiVars

\* the await of ctx.send in is_user ends: the check returns False and the
\* framework raises CheckFailure, or the exception of ctx.send leaves it
IsUserSend ==
    /\ bpc = "is_user_send"
    /\ \E outcome \in SendOutcomes :
          LET res == is_user_resume(outcome)
          IN  IF res.kind = "raise"
              THEN /\ exc' = res.exc
                   /\ verdict' = "raised"
                   /\ bpc' = "done"
                   /\ UNCHANGED sent
              ELSE /\ sent' = sent \o sending
                   /\ exc' = CheckFailure
                   /\ verdict' = "denied-insufficient-role"
                   /\ bpc' = "on_command_error"
    /\ sending' = << >>
    /\ UNCHANGED <<message, prefixes, dispatched, botlog, botdb, raised>>
    /\ UNCHANGED apiVars

\* Command.invoke after the checks: the arguments are parsed, and with
\* arguments that parse the handler runs: it may query the database, which
\* connects models.db, and it completes or raises
InvokeCommand ==
    /\ bpc = "invoke"
    /\ \/ /\ exc' = UserInputError
          /\ bpc' = "on_command_error"
          /\ UNCHANGED <<dispatched, botdb>>
       \/ /\ dispatched' = TRUE
          /\ \E queried \in BOOLEAN :
                botdb' = IF queried THEN "open" ELSE botdb
          /\ \E thrown \in {NoException}
                    \cup { CommandInvokeError(t) : t \in HandlerErrors } :
                exc' = thrown
          /\ bpc' = "after_invoke"
    /\ UNCHANGED <<message, prefixes, verdict, botlog, sent, sending, raised>>
    /\ UNCHANGED apiVars

\* the after_invoke hook runs when the handler has completed or raised
PostInvokeCleanup ==
    /\ bpc = "after_invoke"
    /\ botdb' = post_invoke_cleanup(botdb)
    /\ bpc' = IF exc = NoException THEN "done" ELSE "on_command_error"
    /\ UNCHANGED <<message, prefixes, verdict, exc, dispatched, botlog, sent,
                   sending, raised>>
    /\ UNCHANGED apiVars

\* on_command_error up to its return, its exception or its await
OnCommandError ==
    /\ bpc = "on_command_error"
    /\ \E formatted \in FormatExceptionOutcomes :
          LET res == on_command_error(message, exc, formatted)
          IN  /\ botlog' = botlog \o res.logged
              /\ sending' = res.sending
              /\ raised' = res.raised
              /\ bpc' = IF res.kind = "await"
                        THEN "on_command_error_send"
                        ELSE "done"
    /\ UNCHANGED <<message, prefixes, verdict, exc, dispatched, sent, botdb>>
    /\ UNCHANGED apiVars

\* the await of ctx.send in on_command_error ends
OnCommandErrorSend ==
    /\ bpc = "on_command_error_send"
    /\ \E outcome \in SendOutcomes :
          /\ raised' = on_command_error_resume(outcome)
          /\ sent' = IF outcome = "sent" THEN sent \o sending ELSE sent
    /\ sending' = << >>
    /\ bpc' = "done"
    /\ UNCHANGED <<message, prefixes, verdict, exc, dispatched, botlog, botdb>>
    /\ UNCHANGED apiVars

BotNext ==
    \/ MessageArrives
    \/ GetPrefix
    \/ GloballyBlockDms
    \/ IsUser
    \/ IsUserSend
    \/ InvokeCommand
    \/ PostInvokeCleanup
    \/ OnCommandError
    \/ OnCommandErrorSend

Init ==
    /\ store = DefaultStore
    /\ ApiInit
    /\ BotInit

Next ==
    \/ RequestUser("r1")
    \/ RequestGame("r1")
    \/ RequestNewGame("r1")
    \/ GetScopes("r1")
    \/ GetUser("r1")
    \/ GetGame("r1")
    \/ NewGame("r1")
    \/ FetchMemberReturn("r1")
    \/ Cancel("r1")
    \/ FetchMemberLate("r1")

Spec == Init /\ [][Next]_vars

----------------------------------------------------------------------------
(* get_scopes over drawn scope strings: the scopes column of app3 is any   *)
(* string of at most MaxScopeLen characters, and two requests call         *)
(* get_scopes against the same store.                                      *)

ScopeAlphabet == {" ", "\t", "\r", "a", "b"}
ScopeStrings == SeqsUpTo(ScopeAlphabet, MaxScopeLen)

ScopesInit ==
    /\ store \in { [DefaultStore EXCEPT !["app3"].scopes = s] :
                      s \in ScopeStrings }
    /\ ApiInit
    /\ BotInit

RequestScoped(r) ==
    /\ pc[r] = "idle"
    /\ \E c \in { [username |-> "app3", password |-> "secret3"],
                   [username |-> "app3", password |-> "secret1"],
                   [username |-> "app9", password |-> "secret3"] } :
           Arrive(r, [op |-> "get_user", username |-> c.username,
                      password |-> c.password, id |-> 1, game |-> NoGame])

ScopesNext ==
    \E r \in Requests :
        \/ RequestScoped(r)
        \/ GetScopes(r)
        \/ GetUser(r)

ScopesSpec == ScopesInit /\ [][ScopesNext]_vars

BotSpec == Init /\ [][BotNext]_vars

----------------------------------------------------------------------------
(* Two POST /game/new requests in flight at once: the event loop runs one  *)
(* coroutine at a time and changes coroutine only where one awaits.        *)

ConcSides == { << <<1>>, <<2>> >>, << <<2>>, <<1>> >>, << <<1>>, <<1>> >> }
ConcNotes == {"", "gg", "wp"}

ConcBodies ==
    { [game_name |-> "g", guild_id |-> 10, is_ranked |-> FALSE,
       is_mobile |-> TRUE, notes |-> n, sides_discord_ids |-> sl] :
        n \in ConcNotes, sl \in ConcSides }

RequestConcurrent(r) ==
    /\ pc[r] = "idle"
    /\ \E g \in ConcBodies :
           Arrive(r, [op |-> "new_game", username |-> "app1",
                      password |-> "secret1", id |-> 0, game |-> g])

ConcNext ==
    \E r \in Requests :
        \/ RequestConcurrent(r)
        \/ GetScopes(r)
        \/ NewGame(r)
        \/ FetchMemberReturn(r)
        \/ Cancel(r)
        \/ FetchMemberLate(r)

ConcSpec == Init /\ [][ConcNext]_vars

----------------------------------------------------------------------------
(* Vocabulary of the properties.                                           *)

ToSet(list) == { list[k] : k \in 1..Len(list) }

\* the whitespace-delimited tokens of a string: its maximal runs of
\* characters that are not whitespace
TokenStarts(str) ==
    { a \in 1..Len(str) :
        str[a] \notin Whitespace /\ (a = 1 \/ str[a - 1] \in Whitespace) }

TokenEnd(str, a) ==
    CHOOSE b \in a..Len(str) :
        /\ \A k \in a..b : str[k] \notin Whitespace
        /\ (b = Len(str) \/ str[b + 1] \in Whitespace)

TokenSet(str) == { SubSeq(str, a, TokenEnd(str, a)) : a \in TokenStarts(str) }

Authenticates(r) ==
    /\ request[r].username \in DOMAIN store
    /\ store[request[r].username].token = request[r].password

StoredTokens(r) == TokenSet(store[request[r].username].scopes)

RequiredScope(op) ==
    CASE op = "get_user" -> UsersRead
      [] op = "get_game" -> GamesRead
      [] op = "new_game" -> GamesNew

CallsOf(r, names) == { k \in 1..Len(log[r]) : log[r][k].call \in names }

ResolutionCalls == {"get_guild", "get_member", "fetch_member"}
PersistenceReads == {"DiscordMember.get_or_none", "Game.get_or_none"}
PersistenceWrites == {"Game.create_game", "save"}

Sides(r) == request[r].game.sides_discord_ids

IdsOf(r) == ToSet(Flatten(Sides(r)))

\* a POST /game/new whose credential authenticates and holds games:new
AuthorisedNewGame(r) ==
    /\ request[r].op = "new_game"
    /\ Authenticates(r)
    /\ GamesNew \in StoredTokens(r)

----------------------------------------------------------------------------
(* C1: an operation called with a credential that authenticates but whose  *)
(* scope set lacks the operation's scope ends in 403, not 401, and issues  *)
(* no identity-resolution call, no persistence read and no create.         *)
C1_ForbiddenBeforeAnyCall ==
    \A r \in Requests :
        (/\ pc[r] # "idle"
         /\ Authenticates(r)
         /\ RequiredScope(request[r].op) \notin StoredTokens(r))
        => /\ CallsOf(r, ResolutionCalls \cup PersistenceReads
                            \cup PersistenceWrites) = {}
           /\ games = InitialGames
           /\ pc[r] \in {"get_scopes", "handler", "done"}
           /\ pc[r] = "done" => response[r].status = 403

\* app2 holds games:read only: its POST /game/new of two sides ends in 403
C1_Witness ==
    /\ pc["r1"] = "done"
    /\ request["r1"].op = "new_game"
    /\ request["r1"].username = "app2"
    /\ request["r1"].password = "secret2"
    /\ Sides("r1") = << <<1>>, <<2>> >>
    /\ response["r1"].status = 403

----------------------------------------------------------------------------
GotScopes(r) == pc[r] \in {"handler", "fetch_member", "done"}

(* C2: with no application for the credential get_scopes ends in 401 with  *)
(* a WWW-Authenticate challenge and yields no scopes; with one, the        *)
(* scopes returned are, as a set, the whitespace-delimited tokens stored,  *)
(* and two calls with the same credential agree.                           *)
C2_ScopesAreStoredTokens ==
    /\ \A r \in Requests :
          GotScopes(r) =>
             IF Authenticates(r)
             THEN /\ ToSet(scopes[r]) = StoredTokens(r)
                  /\ response[r].status # 401
             ELSE /\ pc[r] = "done"
                  /\ scopes[r] = << >>
                  /\ response[r].status = 401
                  /\ "WWW-Authenticate" \in response[r].headers
    /\ \A q, r \in Requests :
          (/\ GotScopes(q) /\ GotScopes(r)
           /\ request[q].username = request[r].username
           /\ request[q].password = request[r].password)
          => /\ scopes[q] = scopes[r]
             /\ (response[q].status = 401) <=> (response[r].status = 401)

\* the stored string "a", blank, tab, "a" gives the token a twice, and a
\* second request with a wrong token has ended in 401
C2_Witness ==
    /\ pc["r1"] = "handler"
    /\ store["app3"].scopes = << "a", " ", "\t", "a" >>
    /\ scopes["r1"] = << <<"a">>, <<"a">> >>
    /\ pc["r2"] = "done"
    /\ response["r2"].status = 401

----------------------------------------------------------------------------
ReachedPersistence(r) ==
    { k \in 1..Len(log[r]) :
        \/ log[r][k].call \in PersistenceReads \cup {"save"}
        \/ log[r][k].call = "Game.create_game"
              /\ log[r][k].result # "ValueError" }

(* C3: a POST /game/new with games:new in scope and fewer than two         *)
(* non-empty sides ends in 400 and issues no remote member fetch and no    *)
(* persistence call while it is handled.  A create_game that rejects its   *)
(* arguments with ValueError is not counted as a persistence call.         *)
C3_InvalidSidesNoCalls ==
    \A r \in Requests :
        (/\ pc[r] # "idle"
         /\ AuthorisedNewGame(r)
         /\ Cardinality(NonEmptySides(Sides(r))) < 2)
        => /\ CallsOf(r, {"fetch_member"}) = {}
           /\ ReachedPersistence(r) = {}
           /\ pc[r] = "done" => response[r].status = 400

----------------------------------------------------------------------------
(* C4: a POST /game/new in which one id appears in two sides ends in 400,  *)
(* decided before any cache lookup or remote fetch of get_discord_member.  *)
C4_DuplicateBeforeResolution ==
    \A r \in Requests :
        (/\ pc[r] # "idle"
         /\ AuthorisedNewGame(r)
         /\ DuplicateAcrossSides(Sides(r)))
        => /\ CallsOf(r, ResolutionCalls) = {}
           /\ pc[r] = "done" => response[r].status = 400

----------------------------------------------------------------------------
MissingIds(r) ==
    { id \in IdsOf(r) :
        id \notin CachedMembers(request[r].game.guild_id)
                    \cup RemoteMembers(request[r].game.guild_id) }

(* C5: a POST /game/new that names a member neither cached nor known to    *)
(* Discord ends in 404 for a member, and neither create_game nor the save  *)
(* of the note is ever issued for it, however many members resolved.       *)
C5_AllOrNothing ==
    \A r \in Requests :
        (/\ pc[r] # "idle"
         /\ AuthorisedNewGame(r)
         /\ MissingIds(r) # {})
        => /\ CallsOf(r, PersistenceWrites) = {}
           /\ games = InitialGames
           /\ pc[r] = "done" =>
                 /\ response[r].status = 404
                 /\ request[r].game.guild_id \in ClientGuilds =>
                       response[r].detail.msg
                           = "Discord member not found by ID"

\* member 1 came from the cache, member 2 from a fetch, member 3 failed
C5_Witness ==
    /\ pc["r1"] = "done"
    /\ AuthorisedNewGame("r1")
    /\ request["r1"].game.guild_id = 10
    /\ Sides("r1") = << <<1, 2>>, <<3>> >>
    /\ loop["r1"].discord_user_side = << >>
    /\ loop["r1"].discord_user_sides = << <<1, 2>> >>
    /\ response["r1"].status = 404
    /\ response["r1"].detail.id = 3

----------------------------------------------------------------------------
\* a message that is a command under the prefixes of a direct message
DirectCommand ==
    /\ bpc # "idle"
    /\ message.guild = NoGuild
    /\ message.prefix \in ToSet(when_mentioned_or(get_setting))
    /\ message.command \in DOMAIN Commands

(* C6: a command that arrives as a direct message ends with the verdict    *)
(* denied-no-guild whoever sends it: prefix resolution does not raise, the *)
(* role check does not decide, and no handler is dispatched.               *)
C6_DirectMessageDenied ==
    DirectCommand =>
        /\ verdict \notin {"raised", "allowed", "denied-insufficient-role"}
        /\ ~dispatched
        /\ bpc = "done" => verdict = "denied-no-guild"

----------------------------------------------------------------------------
PrefixResolved == bpc \notin {"idle", "get_prefix"}

AnomalyLogged ==
    \E k \in 1..Len(botlog) :
        botlog[k].level = "error" /\ botlog[k].id = message.guild

(* C7: for a message of a guild settings.config does not hold, get_prefix  *)
(* logs the anomaly, returns the mention triggers and the default prefix,  *)
(* and does not raise; for a guild it holds, get_prefix returns the        *)
(* mention triggers and that guild's own prefix.                           *)
C7_PrefixOfTenant ==
    (PrefixResolved /\ message.guild # NoGuild) =>
        IF message.guild \in {MainGuild, OtherGuild}
        THEN /\ prefixes = << "<@bot> ", "<@!bot> ",
                              IF message.guild = MainGuild THEN "$" ELSE "!" >>
             /\ ~AnomalyLogged
        ELSE /\ prefixes = << "<@bot> ", "<@!bot> ", "?" >>
             /\ AnomalyLogged

\* a command of a guild outside settings.config, typed with the default
\* prefix, has passed the checks
C7_Witness ==
    /\ bpc = "invoke"
    /\ message.guild = StrayGuild
    /\ message.prefix = "?"
    /\ prefixes[3] = "?"
    /\ AnomalyLogged

----------------------------------------------------------------------------
Succeeded(r) ==
    /\ pc[r] = "done"
    /\ request[r].op = "new_game"
    /\ response[r].status = 200

(* C8: the result of a successful POST /game/new holds the id of the game  *)
(* created and every warning create_game emitted for the request.          *)
C8_WarningsReturned ==
    \A r \in Requests :
        Succeeded(r) =>
            /\ "game_id" \in DOMAIN response[r].body
            /\ response[r].body.game_id = Len(games)
            /\ warnings[r] # << >> =>
                  /\ "warnings" \in DOMAIN response[r].body
                  /\ ToSet(warnings[r])
                        \subseteq ToSet(response[r].body.warnings)

----------------------------------------------------------------------------
SaveFailed(r) ==
    \E k \in 1..Len(log[r]) :
        log[r][k].call = "save" /\ log[r][k].result # "saved"

(* C9: when create_game succeeded for a request with a note and the save   *)
(* of the note fails, the created record stays and the request still ends  *)
(* in success, with the game id and a warning, not in an error.            *)
C9_NoteFailureIsWarning ==
    \A r \in Requests :
        (pc[r] = "done" /\ request[r].op = "new_game" /\ SaveFailed(r)) =>
            /\ \E k \in 1..Len(games) :
                  k > Len(InitialGames) /\ games[k].notes = ""
            /\ response[r].status = 200
            /\ "game_id" \in DOMAIN response[r].body
            /\ "warnings" \in DOMAIN response[r].body

----------------------------------------------------------------------------
\* the request ended on the failure `outcome` of fetch_member
EndedOnFetch(r, outcome) ==
    /\ pc[r] = "done"
    /\ log[r] # << >>
    /\ log[r][Len(log[r])].call = "fetch_member"
    /\ log[r][Len(log[r])].result = outcome

NotFoundMember(resp) ==
    resp.status = 404 /\ resp.detail.msg = "Discord member not found by ID"

(* C10: after a cache miss, a remote fetch that fails for another reason   *)
(* than the member not existing gives an outcome the caller can tell from  *)
(* NotFound for the member.                                                *)
C10_TransientDistinct ==
    \A r \in Requests :
        /\ EndedOnFetch(r, "NotFound") => NotFoundMember(response[r])
        /\ EndedOnFetch(r, "HTTPException") => ~NotFoundMember(response[r])

----------------------------------------------------------------------------
GuildOf(r) == request[r].game.guild_id

(* C13: a get_discord_member call for a guild the client does not know     *)
(* fails with 404 naming the guild, and issues neither a lookup in the     *)
(* member cache nor a remote fetch.                                        *)
C13_UnknownGuildFailsFast ==
    \A r \in Requests :
        (/\ pc[r] # "idle"
         /\ request[r].op = "new_game"
         /\ GuildOf(r) \notin ClientGuilds)
        => /\ CallsOf(r, {"get_member", "fetch_member"}) = {}
           /\ pc[r] # "fetch_member"
           /\ CallsOf(r, {"get_guild"}) # {} =>
                 /\ Cardinality(CallsOf(r, {"get_guild"})) = 1
                 /\ pc[r] = "done"
                 /\ response[r].status = 404
                 /\ response[r].detail
                       = Detail("Discord guild not found by ID", GuildOf(r))

\* get_discord_member(99, 1) was called for the first id of two sides
C13_Witness ==
    /\ pc["r1"] = "done"
    /\ GuildOf("r1") = 99
    /\ Sides("r1") = << <<1, 2>>, <<3>> >>
    /\ log["r1"][Len(log["r1"])] = Call("get_guild", 99)
    /\ response["r1"].status = 404
    /\ response["r1"].detail.id = 99

----------------------------------------------------------------------------
\* the members new_game has resolved so far, in the order it resolved them
Resolved(r) ==
    Flatten(loop[r].discord_user_sides) \o loop[r].discord_user_side

\* the cache lookups of the request, in the order they were issued
Lookups(r) == SelectSeq(log[r], LAMBDA e : e.call = "get_member")

CacheHit(r, id) == id \in CachedMembers(GuildOf(r))

(* C14: a get_discord_member call whose member is in the guild's cache     *)
(* returns the cached member with no remote fetch and no suspension; a     *)
(* remote fetch is issued only directly after a cache miss of the same     *)
(* member, once.                                                           *)
C14_CacheHitNoFetch ==
    \A r \in Requests :
        /\ \A k \in 1..Len(log[r]) :
              /\ (log[r][k].call = "get_member" /\ CacheHit(r, log[r][k].id))
                    => (k < Len(log[r]) => log[r][k + 1].call # "fetch_member")
              /\ (log[r][k].call = "get_member" /\ ~CacheHit(r, log[r][k].id))
                    => /\ k < Len(log[r])
                       /\ log[r][k + 1] = Call("fetch_member", log[r][k].id)
              /\ log[r][k] = Call("fetch_member", log[r][k].id)
                    => /\ k > 1
                       /\ log[r][k - 1] = Call("get_member", log[r][k].id)
                       /\ ~CacheHit(r, log[r][k].id)
                       /\ k < Len(log[r]) =>
                             /\ log[r][k + 1].call
                                   \in {"fetch_member", "Task.cancel"}
                             /\ log[r][k + 1]
                                   # Call("fetch_member", log[r][k].id)
        /\ \A n \in 1..Len(Lookups(r)) :
              CacheHit(r, Lookups(r)[n].id) =>
                  /\ n <= Len(Resolved(r))
                  /\ Resolved(r)[n] = Lookups(r)[n].id
        /\ pc[r] = "fetch_member" =>
              ~CacheHit(r, Sides(r)[loop[r].i][loop[r].j])

\* member 2 was fetched after a miss, then member 1 came from the cache
\* and the request went on to create_game without another fetch
C14_Witness ==
    /\ pc["r1"] = "done"
    /\ GuildOf("r1") = 10
    /\ Sides("r1") = << <<2>>, <<1>> >>
    /\ Resolved("r1") = << 2, 1 >>
    /\ Cardinality(CallsOf("r1", {"fetch_member"})) = 2
    /\ CallsOf("r1", {"Game.create_game"}) # {}

----------------------------------------------------------------------------
\* the log entries after which get_discord_member has failed or been left
ResolutionFailed(r, k) ==
    \/ log[r][k].call = "get_guild" /\ log[r][k].id \notin ClientGuilds
    \/ /\ log[r][k].call = "fetch_member"
       /\ log[r][k].result \in DiscordHTTPExceptions \cup {"CancelledError"}

\* the log entries after which get_discord_member has returned a member
ResolutionSucceeded(r, k) ==
    \/ log[r][k].call = "get_member" /\ CacheHit(r, log[r][k].id)
    \/ log[r][k].call = "fetch_member" /\ log[r][k].result = "Member"

(* C15: within one POST /game/new the ids are resolved one at a time in    *)
(* the order of the sides and of the positions in a side; the resolution   *)
(* of an id starts only when the one before it has returned a member, and  *)
(* after the first failure no cache lookup and no fetch is issued.         *)
C15_SequentialFailFast ==
    \A r \in Requests :
        request[r].op = "new_game" =>
            /\ Len(Lookups(r)) <= Len(Flatten(Sides(r)))
            /\ \A n \in 1..Len(Lookups(r)) :
                  Lookups(r)[n].id = Flatten(Sides(r))[n]
            /\ \A k \in 1..Len(log[r]) :
                  /\ (/\ log[r][k].call = "get_guild"
                      /\ \E m \in 1..(k - 1) : log[r][m].call = "get_guild")
                        => ResolutionSucceeded(r, k - 1)
                  /\ ResolutionFailed(r, k)
                        => \A m \in (k + 1)..Len(log[r]) :
                              log[r][m].call
                                 \notin ResolutionCalls \cup PersistenceWrites
            /\ Resolved(r) = SubSeq(Flatten(Sides(r)), 1, Len(Resolved(r)))

\* 1 from the cache, then 2 from a fetch, then 3 in the second side failed
C15_Witness ==
    /\ pc["r1"] = "done"
    /\ GuildOf("r1") = 10
    /\ Sides("r1") = << <<1, 2>>, <<3>> >>
    /\ Len(Lookups("r1")) = 3
    /\ Resolved("r1") = << 1, 2 >>
    /\ ResolutionFailed("r1", Len(log["r1"]))


----------------------------------------------------------------------------
\* the create_game calls of a request that returned a record
Created(r) ==
    { k \in CallsOf(r, {"Game.create_game"}) : log[r][k].result = "created" }

SaveCalls(r) == CallsOf(r, {"save"})

\* the ids of the records a request created
CreatedIds(r) == { log[r][k].id : k \in Created(r) }

(* C16: with two POST /game/new requests in flight, a request issues the   *)
(* save of a note only if it supplied a non-empty note, only after its own *)
(* create_game returned a record, and on that record; a record never holds *)
(* the note of a request that did not create it.                           *)
C16_NoteOnOwnRecord ==
    /\ \A r \in Requests :
          \A s \in SaveCalls(r) :
              /\ request[r].game.notes # ""
              /\ \E c \in Created(r) :
                    c < s /\ log[r][s].id = log[r][c].id
    /\ \A q, r \in Requests : q # r => CreatedIds(q) \cap CreatedIds(r) = {}
    /\ SubSeq(games, 1, Len(InitialGames)) = InitialGames
    /\ \A k \in (Len(InitialGames) + 1)..Len(games) :
          \E r \in Requests :
              /\ k \in CreatedIds(r)
              /\ games[k].sides = Sides(r)
              /\ games[k].notes \in {"", request[r].game.notes}
              /\ games[k].notes # "" =>
                    \E s \in SaveCalls(r) :
                        log[r][s].id = k /\ log[r][s].result = "saved"

\* both requests were suspended in fetch_member; r2 created record 2 and
\* r1 record 3, and each record holds the note of its own request
C16_Witness ==
    /\ pc["r1"] = "done" /\ pc["r2"] = "done"
    /\ request["r1"].game.notes = "gg"
    /\ request["r2"].game.notes = "wp"
    /\ Sides("r1") = << <<2>>, <<1>> >>
    /\ Sides("r2") = << <<1>>, <<2>> >>
    /\ Len(games) = 3
    /\ games[2].notes = "wp" /\ games[2].sides = Sides("r2")
    /\ games[3].notes = "gg" /\ games[3].sides = Sides("r1")


----------------------------------------------------------------------------
\* every create_game call that returned a record, over all requests
AllCreated == UNION { { <<r, k>> : k \in Created(r) } : r \in Requests }

(* C20: a POST /game/new issues at most one create_game, and exactly one   *)
(* that returned a record when it ends in 200; after it the record changes *)
(* only by one save of the note; no record of the table is ever removed or *)
(* replaced; get_user and get_game issue no create_game and no save.       *)
C20_CreatedOnce ==
    /\ \A r \in Requests :
          /\ Cardinality(CallsOf(r, {"Game.create_game"})) <= 1
          /\ Succeeded(r) => Cardinality(Created(r)) = 1
          /\ Cardinality(SaveCalls(r)) <= 1
          /\ \A s \in SaveCalls(r) :
                \E c \in Created(r) : c < s /\ log[r][s].id = log[r][c].id
          /\ request[r].op \in {"get_user", "get_game"}
                => CallsOf(r, PersistenceWrites) = {}
          /\ \A k \in Created(r) :
                LET id == log[r][k].id
                IN  /\ id \in (Len(InitialGames) + 1)..Len(games)
                    /\ [games[id] EXCEPT !.notes = ""]
                          = NewRecord(SubSeq(games, 1, id - 1),
                                      request[r].game, Sides(r))
                    /\ games[id].notes # "" =>
                          /\ games[id].notes = request[r].game.notes
                          /\ SaveCalls(r) # {}
    /\ SubSeq(games, 1, Len(InitialGames)) = InitialGames
    /\ Len(games) = Len(InitialGames) + Cardinality(AllCreated)

\* a request with a note ended in 200: one create_game, then one save
C20_Witness ==
    /\ Succeeded("r1")
    /\ request["r1"].game.notes = "gg"
    /\ Cardinality(Created("r1")) = 1
    /\ Cardinality(SaveCalls("r1")) = 1
    /\ Len(games) = 2
    /\ games[2].notes = "gg"


----------------------------------------------------------------------------
WasCancelled(r) == CallsOf(r, {"Task.cancel"}) # {}

(* C19: a POST /game/new cancelled while it is suspended in a remote fetch *)
(* issues no create_game and no save, also when the fetch that was in      *)
(* flight completes with the member afterwards.                            *)
C19_CancelledCommitsNothing ==
    \A r \in Requests :
        WasCancelled(r) =>
            /\ CallsOf(r, PersistenceWrites) = {}
            /\ \A k \in (Len(InitialGames) + 1)..Len(games) :
                  \E q \in Requests \ {r} : k \in CreatedIds(q)
            /\ response[r].status # 200

\* cancelled while member 2, the last id, was being fetched; the fetch
\* then completed with the member
C19_Witness ==
    /\ pc["r1"] = "gone"
    /\ WasCancelled("r1")
    /\ Sides("r1") = << <<1>>, <<2>> >>
    /\ request["r1"].game.notes = "gg"
    /\ log["r1"][Len(log["r1"])] = Result("fetch_member.late", 2, "Member")


----------------------------------------------------------------------------
\* on_command_error has run for the exception exc
Delivered == bpc = "done" /\ exc # NoException /\ verdict # "raised"

\* the messages on_command_error has sent to the channel
Replies == { k \in 1..Len(sent) : sent[k] # RiderDenial }

\* the detail strings api.py writes itself, and the reason of a ValueError
ApiDetails ==
    {"", "Incorrect app ID or token.", "Not authorised for scope users:read.",
     "Not authorised for scope games:read.",
     "Not authorised for scope games:new.", "User not found.",
     "Game not found.", "Discord guild not found by ID",
     "Discord member not found by ID", "Internal Server Error", "ValueError"}

(* C11: nothing sent to the user holds the text of an internal error: no   *)
(* reply of on_command_error carries the text of the exception a handler   *)
(* raised, the reply it sends is the same for every such exception, and    *)
(* every HTTP response holds a detail api.py wrote or the reason of a      *)
(* ValueError.                                                             *)
C11_NoRawErrorText ==
    /\ \A k \in Replies :
          \A t \in HandlerErrors :
              sent[k] # "Unhandled error: " \o CommandInvokeError(t).text
    /\ (Delivered /\ exc.class = "CommandInvokeError" /\ Replies # {}) =>
          \A t \in HandlerErrors :
              on_command_error(message, CommandInvokeError(t),
                               "formatted").sending
                 = SelectSeq(sent, LAMBDA m : m # RiderDenial)
    /\ \A r \in Requests : response[r].detail.msg \in ApiDetails

----------------------------------------------------------------------------
\* the connection of models.db is not held
Released(db) == db = "closed"

ApiEnded(r) == pc[r] \in {"idle", "done", "cancelled", "gone"}

(* C12: when a command or an HTTP request that connected models.db has     *)
(* ended, however it ended, the connection has been closed.                *)
C12_ConnectionReleased ==
    /\ (\A r \in Requests : ApiEnded(r)) => Released(apidb)
    /\ bpc = "done" => Released(botdb)

----------------------------------------------------------------------------
\* the command has been through is_user
RoleChecked ==
    /\ message.guild # NoGuild
    /\ message.command \in DOMAIN Commands
    /\ Contains(prefixes, message.prefix)
    /\ bpc \notin {"idle", "get_prefix", "globally_block_dms", "is_user",
                    "is_user_send"}

(* C17: for a command of a guild, is_user denies, sends the denial message *)
(* and lets no handler run when the guild is the main one and the top role *)
(* of the author is below Rider; otherwise it allows and sends nothing.    *)
(* It ends in no other way.                                                *)
C17_RoleCheckDecides ==
    RoleChecked =>
        IF message.guild = MainGuild /\ message.top_role < RiderRank
        THEN /\ verdict = "denied-insufficient-role"
             /\ \E k \in 1..Len(sent) : sent[k] = RiderDenial
             /\ ~dispatched
        ELSE /\ verdict = "allowed"
             /\ \A k \in 1..Len(sent) : sent[k] # RiderDenial

----------------------------------------------------------------------------
LoggedAt(level) == { k \in 1..Len(botlog) : botlog[k].level = level }

\* what on_command_error does for a command with no handler of its own
ReportedGlobally ==
    IF exc.class \in Ignored
    THEN /\ Cardinality(LoggedAt("warning")) = 1
         /\ LoggedAt("critical") = {}
         /\ Replies = {}
    ELSE /\ Cardinality(LoggedAt("critical")) = 1
         /\ Cardinality(Replies) = 1

(* C18: every exception delivered to on_command_error is logged as a       *)
(* warning with no reply when its class is ignorable, and logged as        *)
(* critical with exactly one reply otherwise, also for a command with a    *)
(* local error handler.                                                    *)
C18_EveryErrorReported == Delivered => ReportedGlobally

====
